---- MODULE Spec2Model ----
(***************************************************************************)
(* A model of backend/server.py of the PaperGenius service: the document   *)
(* store (folders, templates, question papers), the fallback question      *)
(* synthesizer, the Gemini question generator and the generate-paper       *)
(* orchestrator.                                                           *)
(*                                                                         *)
(* Text is a sequence of tokens: a token is a whitespace character or a    *)
(* whole word.  An LLM response text is a sequence of JSON tokens.         *)
(***************************************************************************)
EXTENDS Integers, Sequences, FiniteSets, TLC

\* ------------------------------------------------------------------ bounds
MaxRespLen == 4
MaxCount == 3
MaxFiles == 2
MaxFolders == 1
MaxTemplates == 1
MaxRequests == 1
\* Direct calls of the Fallback Synthesizer: the longest content, in tokens,
\* and how far num_questions goes below 0 and above the synthesizer's limit.
MaxContentLen == 3
MaxOver == 2
\* The generate-paper requests in flight together in SpecConc.
MaxConcurrent == 2

\* --------------------------------------------------------- small utilities
Min(a, b) == IF a < b THEN a ELSE b

RECURSIVE SeqsUpTo(_, _)
SeqsUpTo(S, n) ==
    IF n = 0 THEN {<<>>}
    ELSE LET shorter == SeqsUpTo(S, n - 1)
         IN  shorter \cup {Append(s, x) : s \in {t \in shorter : Len(t) = n - 1}, x \in S}

Range(s) == {s[i] : i \in 1..Len(s)}

RECURSIVE Concat(_)
Concat(ss) == IF ss = <<>> THEN <<>> ELSE Head(ss) \o Concat(Tail(ss))

\* An absent dictionary key / Python None.
None == "<none>"

\* ------------------------------------------------------------ Python text
NL == "\n"
Whitespace == {" ", NL}

\* str.lower() on one word of the content alphabet.
LowerWord(w) ==
    CASE w = "Data" -> "data"
      [] w = "Algorithm" -> "algorithm"
      [] OTHER -> w

\* str.strip(): drop leading and trailing whitespace.
RECURSIVE LStrip(_)
LStrip(s) == IF s # <<>> /\ Head(s) \in Whitespace THEN LStrip(Tail(s)) ELSE s

RECURSIVE RStrip(_)
RStrip(s) ==
    IF s # <<>> /\ s[Len(s)] \in Whitespace THEN RStrip(SubSeq(s, 1, Len(s) - 1)) ELSE s

Strip(s) == RStrip(LStrip(s))

\* str.split(): the maximal runs of non-whitespace tokens. A run of one token
\* is that word; a run of several tokens is the word they spell together,
\* kept as the tuple of its parts.
RECURSIVE SplitFrom(_, _, _)
SplitFrom(s, cur, acc) ==
    IF s = <<>> THEN (IF cur = <<>> THEN acc ELSE Append(acc, cur))
    ELSE IF Head(s) \in Whitespace
         THEN SplitFrom(Tail(s), <<>>, IF cur = <<>> THEN acc ELSE Append(acc, cur))
         ELSE SplitFrom(Tail(s), Append(cur, LowerWord(Head(s))), acc)

\* content.lower().split()
LowerSplit(content) == SplitFrom(content, <<>>, <<>>)

\* str.find / str.rfind of a one-token needle, 0-based, -1 when absent.
Find(s, c) ==
    IF \E i \in 1..Len(s) : s[i] = c
    THEN (CHOOSE i \in 1..Len(s) : s[i] = c /\ \A j \in 1..(i - 1) : s[j] # c) - 1
    ELSE -1

RFind(s, c) ==
    IF \E i \in 1..Len(s) : s[i] = c
    THEN (CHOOSE i \in 1..Len(s) : s[i] = c /\ \A j \in (i + 1)..Len(s) : s[j] # c) - 1
    ELSE -1

\* Python slice s[a:b] with 0 <= a, 0 <= b.
Slice(s, a, b) == SubSeq(s, a + 1, Min(b, Len(s)))

\* ----------------------------------------------------------- json.loads
\* JSON tokens: "[", "]", ",", " " (whitespace), "q" (an object literal that
\* has the question keys) and "x" (prose, not JSON).
JsonTokens == {"[", "]", ",", " ", "q", "x"}

JsonObject == [kind |-> "obj", items |-> <<>>]
JsonArray(items) == [kind |-> "arr", items |-> items]
JsonFail == [ok |-> FALSE, val |-> [kind |-> "null", items |-> <<>>], next |-> 0]
JsonOk(v, n) == [ok |-> TRUE, val |-> v, next |-> n]

RECURSIVE SkipWs(_, _)
SkipWs(s, i) == IF i <= Len(s) /\ s[i] = " " THEN SkipWs(s, i + 1) ELSE i

RECURSIVE ParseValue(_, _)
RECURSIVE ParseElems(_, _, _, _)

\* One JSON value starting at or after index i.
ParseValue(s, i) ==
    LET j == SkipWs(s, i)
    IN  IF j > Len(s) THEN JsonFail
        ELSE IF s[j] = "q" THEN JsonOk(JsonObject, j + 1)
        ELSE IF s[j] = "[" THEN ParseElems(s, j + 1, <<>>, TRUE)
        ELSE JsonFail

\* The elements of an array whose "[" has been read; first: no element yet.
ParseElems(s, i, acc, first) ==
    LET j == SkipWs(s, i)
    IN  IF j > Len(s) THEN JsonFail
        ELSE IF s[j] = "]"
             THEN (IF first THEN JsonOk(JsonArray(acc), j + 1) ELSE JsonFail)
        ELSE LET v == ParseValue(s, j)
             IN  IF ~v.ok THEN JsonFail
                 ELSE LET k == SkipWs(s, v.next)
                      IN  IF k > Len(s) THEN JsonFail
                          ELSE IF s[k] = "," THEN ParseElems(s, k + 1, Append(acc, v.val), FALSE)
                          ELSE IF s[k] = "]" THEN JsonOk(JsonArray(Append(acc, v.val)), k + 1)
                          ELSE JsonFail

\* json.loads(s): one value and nothing but whitespace after it.
JsonLoads(s) ==
    LET v == ParseValue(s, 1)
    IN  IF v.ok /\ SkipWs(s, v.next) > Len(s) THEN v ELSE JsonFail

\* ------------------------------------------------ question records (dicts)
\* A Python value in a question list. kind "obj" is a dict; any other kind is a
\* value that is not a dict. options = <<>> stands for "no options key".
Question(question, type, difficulty, marks, options, answer) ==
    [kind |-> "obj", question |-> question, type |-> type, difficulty |-> difficulty,
     marks |-> marks, options |-> options, answer |-> answer,
     unit_name_source |-> None, section_name_source |-> None]

NotADict(kind) ==
    [kind |-> kind, question |-> <<>>, type |-> None, difficulty |-> None,
     marks |-> 0, options |-> <<>>, answer |-> <<>>,
     unit_name_source |-> None, section_name_source |-> None]

\* The dict the object literal "q" of a response decodes to: what the LLM
\* wrote, whatever the prompt asked for.
LLMQuestion ==
    Question(<<"Question text from the LLM">>, "MCQ", "Medium", 2,
             <<<<"A. Option 1">>, <<"B. Option 2">>>>, <<"A. Option 1">>)

FromJson(v) == IF v.kind = "obj" THEN LLMQuestion ELSE NotADict(v.kind)

\* -------------------------------------------- generate_fallback_questions
common_terms ==
    <<"algorithm", "data", "computer", "programming", "software", "hardware",
      "network", "database", "system", "technology">>

question_types == <<"MCQ", "Short", "Long">>
difficulties == <<"Easy", "Medium", "Hard">>

FallbackCap == 10

TopicLabels ==
    <<"topic 1", "topic 2", "topic 3", "topic 4", "topic 5",
      "topic 6", "topic 7", "topic 8", "topic 9", "topic 10">>

\* [term for term in common_terms if term in words]
found_terms(content) ==
    LET words == Range(LowerSplit(content))
        InWords(term) == <<term>> \in words
    IN  SelectSeq(common_terms, InWords)

\* A loop body that picks the difficulty one place further than the type.
fallback_question_skewed(i, found) ==
    LET q_type == question_types[(i % Len(question_types)) + 1]
        difficulty == difficulties[((i + 1) % Len(difficulties)) + 1]
        topic == IF found # <<>> THEN found[(i % Len(found)) + 1] ELSE TopicLabels[i + 1]
    IN  IF q_type = "MCQ"
        THEN Question(<<"What is the primary concept related to", topic>>,
                      "MCQ", difficulty, 2,
                      << <<"A. Basic understanding of", topic>>,
                         <<"B. Advanced application of", topic>>,
                         <<"C. Theoretical foundation of", topic>>,
                         <<"D. Practical implementation of", topic>> >>,
                      <<"A. Basic understanding of", topic>>)
        ELSE IF q_type = "Short"
        THEN Question(<<"Briefly explain the significance of", topic>>,
                      "Short", difficulty, 5, <<>>,
                      <<"The content discusses", topic>>)
        ELSE Question(<<"Discuss in detail the role and importance of", topic>>,
                      "Long", difficulty, 10, <<>>,
                      <<"A comprehensive discussion of", topic>>)

\* The body of the loop for index i (0-based).
fallback_question(i, found) ==
    LET q_type == question_types[(i % Len(question_types)) + 1]
        difficulty == difficulties[(i % Len(difficulties)) + 1]
        topic == IF found # <<>> THEN found[(i % Len(found)) + 1] ELSE TopicLabels[i + 1]
    IN  IF q_type = "MCQ"
        THEN Question(<<"What is the primary concept related to", topic>>,
                      "MCQ", difficulty, 2,
                      << <<"A. Basic understanding of", topic>>,
                         <<"B. Advanced application of", topic>>,
                         <<"C. Theoretical foundation of", topic>>,
                         <<"D. Practical implementation of", topic>> >>,
                      <<"A. Basic understanding of", topic>>)
        ELSE IF q_type = "Short"
        THEN Question(<<"Briefly explain the significance of", topic>>,
                      "Short", difficulty, 5, <<>>,
                      <<"The content discusses", topic>>)
        ELSE Question(<<"Discuss in detail the role and importance of", topic>>,
                      "Long", difficulty, 10, <<>>,
                      <<"A comprehensive discussion of", topic>>)

\* A loop that stops one question short of the limit.
generate_fallback_questions_short(content, num_questions) ==
    LET found == found_terms(content)
    IN  [k \in 1..Min(num_questions, FallbackCap - 1) |-> fallback_question(k - 1, found)]

\* for i in range(min(num_questions, 10)): questions.append(...)
generate_fallback_questions(content, num_questions) ==
    LET found == found_terms(content)
    IN  [k \in 1..Min(num_questions, FallbackCap) |-> fallback_question(k - 1, found)]

\* ----------------------------------------- the LLM provider and its replies
\* What model.generate_content(prompt) can do: raise, hand back no usable
\* response object, or hand back a response whose text is any token sequence
\* (reading the text of a blocked response raises).
Responses ==
    {[kind |-> "raise", text |-> <<>>], [kind |-> "none", text |-> <<>>],
     [kind |-> "text_raises", text |-> <<>>]}
    \cup {[kind |-> "text", text |-> t] : t \in SeqsUpTo(JsonTokens, MaxRespLen)}

\* How a reply looks to a reader of the code's comments and of the design.
ResponseClass(response) ==
    IF response.kind \in {"raise", "text_raises"} THEN "transport_error"
    ELSE IF response.kind = "none" THEN "missing"
    ELSE IF response.text = <<>> THEN "empty_text"
    ELSE LET a == Find(response.text, "[")
             b == RFind(response.text, "]")
         IN  IF a = -1 \/ b = -1 \/ b < a THEN "no_span"
             ELSE LET v == JsonLoads(Slice(response.text, a, b + 1))
                  IN  IF ~v.ok THEN "unparsable"
                      ELSE IF v.val.kind # "arr" THEN "not_a_list"
                      ELSE IF v.val.items = <<>> THEN "empty_array"
                      ELSE "nonempty_array"

\* The assignments to questions_list between the call of the provider and the
\* pause: "questions" (the parsed list), "fallback" (the synthesizer is
\* called, in the else branch or in the except clause) or "unbound" (no
\* assignment is executed).
Assigned(how, questions) == [assign |-> how, questions |-> questions]

ParseGeminiResponse(response) ==
    IF response.kind \in {"raise", "text_raises"} THEN Assigned("fallback", <<>>)
    ELSE IF response.kind # "none" /\ response.text # <<>>
    THEN LET response_text == Strip(response.text)
             start_idx == Find(response_text, "[")
             end_idx == RFind(response_text, "]") + 1
         IN  IF start_idx # -1 /\ end_idx > start_idx
             THEN LET json_str == Slice(response_text, start_idx, end_idx)
                      questions == JsonLoads(json_str)
                  IN  IF ~questions.ok THEN Assigned("fallback", <<>>)
                      ELSE IF questions.val.kind = "arr" /\ Len(questions.val.items) > 0
                      THEN Assigned("questions",
                                    [k \in 1..Len(questions.val.items) |->
                                        FromJson(questions.val.items[k])])
                      ELSE Assigned("unbound", <<>>)
             ELSE Assigned("fallback", <<>>)
    ELSE Assigned("unbound", <<>>)

\* Every (class, effect) pair a reply of the provider can have.
GeminiReplies ==
    {[class |-> ResponseClass(r), out |-> ParseGeminiResponse(r)] : r \in Responses}

\* ---------------------------------------- generate_questions_with_gemini
\* The activation record of one call.
\*   pc: "idle" | "sleeping" (in asyncio.sleep) | "returned" | "raised"
GenIdle ==
    [pc |-> "idle", content |-> <<>>, num_questions |-> 0, credential |-> FALSE,
     questions_list |-> <<>>, bound |-> FALSE, result |-> <<>>, error |-> None,
     llm_calls |-> 0, fallback_calls |-> 0, paused |-> FALSE, class |-> None]

\* A generator that asks the provider whether or not a credential is set.
gemini_call_nokeycheck(content, num_questions, credential, reply) ==
    LET f == [GenIdle EXCEPT !.content = content, !.num_questions = num_questions,
                             !.credential = credential]
    IN  IF num_questions = 0
        THEN [f EXCEPT !.pc = "returned", !.result = <<>>]
        ELSE LET g == [f EXCEPT !.pc = "sleeping", !.llm_calls = 1, !.class = reply.class]
             IN  CASE reply.out.assign = "questions" ->
                        [g EXCEPT !.questions_list = reply.out.questions, !.bound = TRUE]
                   [] reply.out.assign = "fallback" ->
                        [g EXCEPT !.questions_list =
                                      generate_fallback_questions(content, num_questions),
                                  !.bound = TRUE, !.fallback_calls = 1]
                   [] OTHER -> g

\* A generator without the early return for num_questions = 0.
gemini_call_nozero(content, num_questions, credential, reply) ==
    LET f == [GenIdle EXCEPT !.content = content, !.num_questions = num_questions,
                             !.credential = credential]
    IN  IF ~credential
        THEN [f EXCEPT !.pc = "returned", !.fallback_calls = 1,
                       !.result = generate_fallback_questions(content, num_questions)]
        ELSE LET g == [f EXCEPT !.pc = "sleeping", !.llm_calls = 1, !.class = reply.class]
             IN  CASE reply.out.assign = "questions" ->
                        [g EXCEPT !.questions_list = reply.out.questions, !.bound = TRUE]
                   [] reply.out.assign = "fallback" ->
                        [g EXCEPT !.questions_list =
                                      generate_fallback_questions(content, num_questions),
                                  !.bound = TRUE, !.fallback_calls = 1]
                   [] OTHER -> g

\* From the call to the first suspension (or to the return, when there is
\* none). reply is what the provider does if it is invoked.
gemini_call(content, num_questions, credential, reply) ==
    LET f == [GenIdle EXCEPT !.content = content, !.num_questions = num_questions,
                             !.credential = credential]
    IN  IF num_questions = 0
        THEN [f EXCEPT !.pc = "returned", !.result = <<>>]
        ELSE IF ~credential
        THEN [f EXCEPT !.pc = "returned", !.fallback_calls = 1,
                       !.result = generate_fallback_questions(content, num_questions)]
        ELSE LET g == [f EXCEPT !.pc = "sleeping", !.llm_calls = 1, !.class = reply.class]
             IN  CASE reply.out.assign = "questions" ->
                        [g EXCEPT !.questions_list = reply.out.questions, !.bound = TRUE]
                   [] reply.out.assign = "fallback" ->
                        [g EXCEPT !.questions_list =
                                      generate_fallback_questions(content, num_questions),
                                  !.bound = TRUE, !.fallback_calls = 1]
                   [] OTHER -> g

\* From the end of asyncio.sleep(4) to "return questions_list".
gemini_resume(f) ==
    IF f.bound
    THEN [f EXCEPT !.pc = "returned", !.paused = TRUE, !.result = f.questions_list]
    ELSE [f EXCEPT !.pc = "raised", !.paused = TRUE, !.error = "UnboundLocalError"]

\* ------------------------------------------------- extract_text_from_file
\* What the PDF/DOCX/PPTX decoders can hand back for an upload: text that is
\* only whitespace (pages without a text layer) or text with words.
DecodedTexts == {<<NL>>, <<"Data", " ", "notes", NL>>}

UnsupportedMarker == <<"Unsupported", " ", "file", " ", "format">>

\* Uploaded file names, and the extension filename.lower() ends with.
Filenames == {"Unit.PDF", "unit.txt"}

LowerExtension(filename) ==
    CASE filename = "Unit.PDF" -> ".pdf"
      [] filename = "unit.txt" -> ".txt"
      [] OTHER -> ""

\* A variant that gives the empty text for a format it does not know.
extract_text_from_file_blank(filename, decoded) ==
    IF LowerExtension(filename) \in {".pdf", ".docx", ".pptx"} THEN decoded
    ELSE <<>>

\* decoded: the text the decoder of the file's format produces for its bytes.
extract_text_from_file(filename, decoded) ==
    IF LowerExtension(filename) \in {".pdf", ".docx", ".pptx"} THEN decoded
    ELSE UnsupportedMarker

\* ------------------------------------------------------------ request data
UnitNames == {"Unit 1", "Unit 2"}

\* request.selected_units
SelectedUnitLists == {<<>>, <<"Unit 1">>, <<"Unit 2">>, <<"Unit 1", "Unit 2">>}

UnitQuestionSpec(unit_name, num_questions) ==
    [unit_name |-> unit_name, num_questions |-> num_questions]

SectionDetail(section_name, questions_type, marks, question_specs) ==
    [section_name |-> section_name, section_type |-> "Answer All Questions",
     questions_type |-> questions_type,
     total_questions |-> Len(question_specs),
     questions_to_be_answered |-> Len(question_specs),
     marks_for_each_question |-> marks, question_specs |-> question_specs]

\* The question_specs lists of the templates that are created: none, one
\* spec for any unit and count, or one spec for each of the two units.
SpecLists ==
    {<<>>}
    \cup {<<UnitQuestionSpec(u, n)>> : u \in UnitNames, n \in 0..MaxCount}
    \cup {<<UnitQuestionSpec("Unit 1", a), UnitQuestionSpec("Unit 2", b)>> : a, b \in 0..1}

SectionA(specs) == SectionDetail("Section A", "MCQ", 2, specs)
SectionB(specs) == SectionDetail("Section B", "Short Answer", 5, specs)

\* The sections lists of the templates that are created: no section, one
\* section with at most one spec, or two sections with the same two specs.
TemplateSections ==
    {<<>>}
    \cup {<<SectionA(sl)>> : sl \in {t \in SpecLists : Len(t) < 2}}
    \cup {<<SectionA(sl), SectionB(sl)>> : sl \in {t \in SpecLists : Len(t) = 2}}

\* The body of POST /api/templates: a JSON object, here a record whose
\* domain is the set of keys the client sent.
TemplateCreate(sections) ==
    [name |-> "Midterm", instituteType |-> "college", evaluation |-> "semester",
     duration |-> 120, sections |-> sections, user_id |-> "user"]

\* The body the repository's API test posts.
TestTemplateData ==
    [name |-> "Test Template", paper_code |-> "TEST101", duration |-> 120,
     total_marks |-> 100,
     sections |-> <<[type |-> "MCQ", questions |-> 10, marks |-> 2],
                    [type |-> "Short", questions |-> 5, marks |-> 5],
                    [type |-> "Long", questions |-> 3, marks |-> 10]>>,
     user_id |-> "user"]

TemplateBodies == {TemplateCreate(sections) : sections \in TemplateSections}

\* The fields without a default in the two pydantic models.
RequiredTemplateFields ==
    {"name", "instituteType", "evaluation", "duration", "sections", "user_id"}
RequiredSectionFields ==
    {"section_name", "section_type", "questions_type", "total_questions",
     "questions_to_be_answered", "marks_for_each_question", "question_specs"}

SectionFields(template) ==
    UNION {DOMAIN template.sections[i] : i \in 1..Len(template.sections)}

ValidTemplateCreate(template) ==
    /\ RequiredTemplateFields \subseteq DOMAIN template
    /\ \A i \in 1..Len(template.sections) :
          RequiredSectionFields \subseteq DOMAIN template.sections[i]

\* ------------------------------------------------------------------- state
VARIABLES
    GEMINI_API_KEY,   \* whether the credential is configured (module global)
    folders,          \* db.folders: the folder documents, in insertion order
    templates,        \* db.templates
    question_papers,  \* db.question_papers
    requests,         \* the generate-paper requests: their activation records
    gen,              \* a direct call of generate_questions_with_gemini
    synth,            \* a direct call of generate_fallback_questions
    upload_responses,   \* what POST /api/upload/{folder_id} has answered
    template_responses  \* what POST /api/templates has answered

vars == <<GEMINI_API_KEY, folders, templates, question_papers, requests, gen,
          synth, upload_responses, template_responses>>

\* Documents are found by their "id"; the n-th document created in a
\* collection has id n (uuid4 values are distinct). Id 0 is never created.
FindOne(collection, id) ==
    IF \E i \in 1..Len(collection) : collection[i].id = id
    THEN collection[CHOOSE i \in 1..Len(collection) : collection[i].id = id]
    ELSE [id |-> 0]

Found(doc) == doc.id # 0

\* An exception in flight, and the response a request ends with.
\* status 0: an exception that is not an HTTPException.
Exc(status, detail) == [status |-> status, detail |-> detail]

\* The activation record of a direct call of generate_fallback_questions.
SynthIdle == [pc |-> "idle", content |-> <<>>, num_questions |-> 0, result |-> <<>>]

RequestIdle ==
    [pc |-> "idle", folder_id |-> 0, template_id |-> 0, selected_units |-> <<>>,
     folder |-> [id |-> 0], template |-> [id |-> 0],
     available_unit_contents |-> <<>>,
     si |-> 1, ui |-> 1,
     current_section_generated_questions |-> <<>>,
     paper_sections_with_questions |-> <<>>,
     gen |-> GenIdle,
     calls |-> <<>>,
     peers_paused |-> {},
     status |-> 0, detail |-> <<>>, raised |-> 0, cause |-> <<>>]

Init ==
    /\ GEMINI_API_KEY \in BOOLEAN
    /\ folders = <<>>
    /\ templates = <<>>
    /\ question_papers = <<>>
    /\ requests = [r \in 1..MaxRequests |-> RequestIdle]
    /\ gen = GenIdle
    /\ synth = SynthIdle
    /\ upload_responses = <<>>
    /\ template_responses = <<>>

\* --------------------------------------------------- the store's endpoints
\* POST /api/folders
create_folder ==
    /\ Len(folders) < MaxFolders
    /\ folders' = Append(folders, [id |-> Len(folders) + 1, files |-> <<>>])
    /\ UNCHANGED <<GEMINI_API_KEY, templates, question_papers, requests, gen, synth,
                   upload_responses, template_responses>>

FilesStored == Len(Concat([i \in 1..Len(folders) |-> folders[i].files]))

\* db.folders.update_one({"id": folder_id}, {"$push": {"files": file_data}})
PushFile(collection, folder_id, file_data) ==
    [i \in 1..Len(collection) |->
        IF collection[i].id = folder_id
        THEN [collection[i] EXCEPT !.files = Append(@, file_data)]
        ELSE collection[i]]

\* POST /api/upload/{folder_id}
\* The n-th upload gets file id n (uuid4 values are distinct).
upload_file(folder_id, filename, decoded, unit_name) ==
    LET extracted_text == extract_text_from_file(filename, decoded)
        file_data == [id |-> Len(upload_responses) + 1,
                      filename |-> filename,
                      unit_name |-> IF unit_name = None THEN "general" ELSE unit_name,
                      extracted_text |-> extracted_text]
    IN  /\ Len(upload_responses) < MaxFiles
        /\ folders' = PushFile(folders, folder_id, file_data)
        /\ upload_responses' =
              Append(upload_responses,
                     [status |-> 200, file_id |-> file_data.id, folder_id |-> folder_id])
        /\ UNCHANGED <<GEMINI_API_KEY, templates, question_papers, requests, gen, synth,
                       template_responses>>

\* POST /api/templates
\* FastAPI validates the body against TemplateCreate before the handler runs
\* and answers 422 when a required field is missing.
create_template(template) ==
    /\ Len(template_responses) < MaxTemplates
    /\ IF ValidTemplateCreate(template)
       THEN LET id == Len(templates) + 1
            IN  /\ templates' = Append(templates, [id |-> id, sections |-> template.sections])
                /\ template_responses' =
                      Append(template_responses,
                             [status |-> 200, id |-> id, fields |-> DOMAIN template,
                              section_fields |-> SectionFields(template)])
       ELSE /\ templates' = templates
            /\ template_responses' =
                  Append(template_responses,
                         [status |-> 422, id |-> 0, fields |-> DOMAIN template,
                          section_fields |-> SectionFields(template)])
    /\ UNCHANGED <<GEMINI_API_KEY, folders, question_papers, requests, gen, synth,
                   upload_responses>>

\* ------------------------------------------------- generate_question_paper
\* except Exception as e: raise HTTPException(status_code=500, ...)
InnerExcept(e) ==
    Exc(500, <<"Internal error processing template or generating questions">> \o e.detail)

OuterExcept(e) == Exc(500, <<"Error generating paper">> \o e.detail)

NotFound == Exc(404, <<"Folder or template not found">>)
NoContent == Exc(400, <<"No meaningful content found for any of the selected units">>)
NoQuestions == Exc(400, <<"No questions were generated for any section">>)

\* The request ends with the response FastAPI makes of exception e; raised
\* and cause are the status and the detail of the exception as first raised.
Fails(rec, e, first) ==
    [rec EXCEPT !.pc = "done", !.status = e.status, !.detail = e.detail,
                !.raised = first.status, !.cause = first.detail]

\* The dict of unit name -> concatenated text, built from the folder's files.
RECURSIVE BuildContents(_, _, _)
BuildContents(files, selected_units, acc) ==
    IF files = <<>> THEN acc
    ELSE LET file_data == Head(files)
             unit_name == file_data.unit_name
             piece == file_data.extracted_text \o <<NL, NL>>
         IN  BuildContents(
                 Tail(files), selected_units,
                 IF unit_name \in Range(selected_units)
                 THEN IF unit_name \in DOMAIN acc
                      THEN [acc EXCEPT ![unit_name] = @ \o piece]
                      ELSE acc @@ (unit_name :> piece)
                 ELSE acc)

\* A variant that tests the content for emptiness only, without strip().
meaningful_content_found_nostrip(available_unit_contents) ==
    \E u \in DOMAIN available_unit_contents : available_unit_contents[u] # <<>>

meaningful_content_found(available_unit_contents) ==
    \E u \in DOMAIN available_unit_contents :
        /\ available_unit_contents[u] # <<>>
        /\ Strip(available_unit_contents[u]) # <<>>

\* available_unit_contents.get(unit_name, "")
GetContent(available_unit_contents, unit_name) ==
    IF unit_name \in DOMAIN available_unit_contents
    THEN available_unit_contents[unit_name] ELSE <<>>

\* for q in unit_specific_questions: q["unit_name_source"] = ...; q[...] = ...
\* Subscript assignment on a value that is not a dict raises TypeError.
CanTag(questions) == \A k \in 1..Len(questions) : questions[k].kind = "obj"

\* A variant that writes the two tags into each other's key.
Tag_swapped(questions, unit_name, section_name) ==
    [k \in 1..Len(questions) |->
        [questions[k] EXCEPT !.unit_name_source = section_name,
                             !.section_name_source = unit_name]]

Tag(questions, unit_name, section_name) ==
    [k \in 1..Len(questions) |->
        [questions[k] EXCEPT !.unit_name_source = unit_name,
                             !.section_name_source = section_name]]

PaperSection(section_obj, questions) ==
    [section_name |-> section_obj.section_name,
     questions_type |-> section_obj.questions_type,
     marks_for_each_question_in_section |-> section_obj.marks_for_each_question,
     questions |-> questions,
     unit_distribution_specs |-> section_obj.question_specs]

\* if not paper_sections_with_questions or not any(sec.get("questions") ...)
NoQuestionsGenerated(paper_sections) ==
    \/ paper_sections = <<>>
    \/ ~ \E k \in 1..Len(paper_sections) : paper_sections[k].questions # <<>>

\* After the sections loop: the final check, then paper_data is built and the
\* request waits in db.question_papers.insert_one.
AfterSections(rec) ==
    IF NoQuestionsGenerated(rec.paper_sections_with_questions)
    THEN Fails(rec, OuterExcept(InnerExcept(NoQuestions)), NoQuestions)
    ELSE [rec EXCEPT !.pc = "insert"]

RECURSIVE RunSections(_, _)

\* A variant that puts a unit's questions in front of the section's list.
AfterGenerator_prepend(rec, f, reply) ==
    LET section_obj == rec.template.sections[rec.si]
        unit_spec == section_obj.question_specs[rec.ui]
    IN  IF f.pc = "raised"
        THEN Fails([rec EXCEPT !.gen = f],
                   OuterExcept(InnerExcept(Exc(0, <<f.error>>))), Exc(0, <<f.error>>))
        ELSE IF ~CanTag(f.result)
        THEN Fails([rec EXCEPT !.gen = f],
                   OuterExcept(InnerExcept(Exc(0, <<"TypeError">>))), Exc(0, <<"TypeError">>))
        ELSE RunSections(
                 [rec EXCEPT !.gen = f,
                             !.current_section_generated_questions =
                                 Tag(f.result, unit_spec.unit_name,
                                     section_obj.section_name) \o @,
                             !.ui = @ + 1],
                 reply)

\* What follows a call of the generator that has returned or raised.
AfterGenerator(rec, f, reply) ==
    LET section_obj == rec.template.sections[rec.si]
        unit_spec == section_obj.question_specs[rec.ui]
    IN  IF f.pc = "raised"
        THEN Fails([rec EXCEPT !.gen = f],
                   OuterExcept(InnerExcept(Exc(0, <<f.error>>))), Exc(0, <<f.error>>))
        ELSE IF ~CanTag(f.result)
        THEN Fails([rec EXCEPT !.gen = f],
                   OuterExcept(InnerExcept(Exc(0, <<"TypeError">>))), Exc(0, <<"TypeError">>))
        ELSE RunSections(
                 [rec EXCEPT !.gen = f,
                             !.current_section_generated_questions =
                                 @ \o Tag(f.result, unit_spec.unit_name,
                                          section_obj.section_name),
                             !.ui = @ + 1],
                 reply)

\* The loops over the template's sections and their unit specs, from position
\* (si, ui) up to the next suspension or the end of the request. reply is
\* what the LLM provider does if it is invoked on the way.
RunSections(rec, reply) ==
    LET sections == rec.template.sections
    IN  IF rec.si > Len(sections) THEN AfterSections(rec)
        ELSE LET section_obj == sections[rec.si]
             IN  IF rec.ui > Len(section_obj.question_specs)
                 THEN RunSections(
                          [rec EXCEPT !.paper_sections_with_questions =
                                          Append(@, PaperSection(
                                              section_obj,
                                              rec.current_section_generated_questions)),
                                      !.current_section_generated_questions = <<>>,
                                      !.si = @ + 1, !.ui = 1],
                          reply)
                 ELSE LET unit_spec == section_obj.question_specs[rec.ui]
                          unit_content == GetContent(rec.available_unit_contents,
                                                     unit_spec.unit_name)
                      IN  IF unit_spec.num_questions = 0
                          THEN RunSections([rec EXCEPT !.ui = @ + 1], reply)
                          ELSE IF unit_content = <<>>
                          THEN RunSections([rec EXCEPT !.ui = @ + 1], reply)
                          ELSE LET f == gemini_call(unit_content, unit_spec.num_questions,
                                                    GEMINI_API_KEY, reply)
                                   called == [rec EXCEPT !.calls = Append(@,
                                                 [section_name |-> section_obj.section_name,
                                                  unit_name |-> unit_spec.unit_name,
                                                  num_questions |-> unit_spec.num_questions,
                                                  content |-> unit_content,
                                                  si |-> rec.si, ui |-> rec.ui,
                                                  previous |-> rec.gen.pc,
                                                  previous_llm_calls |-> rec.gen.llm_calls,
                                                  previous_paused |-> rec.gen.paused])]
                               IN  IF f.pc = "sleeping"
                                   THEN [called EXCEPT !.pc = "sleeping", !.gen = f]
                                   ELSE AfterGenerator(called, f, reply)

\* From the two reads of the store to the first suspension.
AfterReads(rec, reply) ==
    IF ~Found(rec.folder) \/ ~Found(rec.template)
    THEN Fails(rec, OuterExcept(NotFound), NotFound)
    ELSE LET contents == BuildContents(rec.folder.files, rec.selected_units, <<>>)
             loaded == [rec EXCEPT !.available_unit_contents = contents]
         IN  IF ~meaningful_content_found(contents)
             THEN Fails(loaded, OuterExcept(InnerExcept(NoContent)), NoContent)
             ELSE RunSections(loaded, reply)

\* POST /api/generate-paper arrives. peers_paused notes the requests that
\* are in the generator's pause at that moment.
generate_question_paper(r, folder_id, template_id, selected_units) ==
    /\ requests[r].pc = "idle"
    /\ requests' = [requests EXCEPT ![r] =
                       [@ EXCEPT !.pc = "find_folder", !.folder_id = folder_id,
                                 !.template_id = template_id,
                                 !.selected_units = selected_units,
                                 !.peers_paused =
                                     {a \in DOMAIN requests : requests[a].pc = "sleeping"}]]
    /\ UNCHANGED <<GEMINI_API_KEY, folders, templates, question_papers, gen, synth,
                   upload_responses, template_responses>>

\* A server whose pause keeps the event loop: while a request is in the
\* generator's pause no other request is served.
find_folder_blocked(r) ==
    /\ requests[r].pc = "find_folder"
    /\ \A a \in DOMAIN requests : requests[a].pc # "sleeping"
    /\ requests' = [requests EXCEPT ![r] =
                       [@ EXCEPT !.pc = "find_template",
                                 !.folder = FindOne(folders, requests[r].folder_id)]]
    /\ UNCHANGED <<GEMINI_API_KEY, folders, templates, question_papers, gen, synth,
                   upload_responses, template_responses>>

\* folder = await db.folders.find_one({"id": request.folder_id})
find_folder(r) ==
    /\ requests[r].pc = "find_folder"
    /\ requests' = [requests EXCEPT ![r] =
                       [@ EXCEPT !.pc = "find_template",
                                 !.folder = FindOne(folders, requests[r].folder_id)]]
    /\ UNCHANGED <<GEMINI_API_KEY, folders, templates, question_papers, gen, synth,
                   upload_responses, template_responses>>

\* template = await db.templates.find_one(...), and on to the first suspension.
find_template(r) ==
    /\ requests[r].pc = "find_template"
    /\ \E reply \in GeminiReplies :
          requests' = [requests EXCEPT ![r] =
              AfterReads([@ EXCEPT !.template =
                             FindOne(templates, requests[r].template_id)], reply)]
    /\ UNCHANGED <<GEMINI_API_KEY, folders, templates, question_papers, gen, synth,
                   upload_responses, template_responses>>

\* asyncio.sleep(4) is over: the generator returns or raises, the loops go on.
resume_generator(r) ==
    /\ requests[r].pc = "sleeping"
    /\ \E reply \in GeminiReplies :
          requests' = [requests EXCEPT ![r] =
              AfterGenerator([@ EXCEPT !.pc = "running"], gemini_resume(@.gen), reply)]
    /\ UNCHANGED <<GEMINI_API_KEY, folders, templates, question_papers, gen, synth,
                   upload_responses, template_responses>>

PaperData(r, id) ==
    [id |-> id, request |-> r,
     folder_id |-> requests[r].folder_id,
     template_id |-> requests[r].template_id,
     selected_units_for_generation |-> requests[r].selected_units,
     paper_sections |-> requests[r].paper_sections_with_questions]

\* A variant that also saves the sections gathered so far while the request
\* is still waiting in the generator's pause.
insert_paper_partial(r) ==
    /\ requests[r].pc \in {"insert", "sleeping"}
    /\ ~ \E k \in 1..Len(question_papers) : question_papers[k].request = r
    /\ question_papers' = Append(question_papers, PaperData(r, Len(question_papers) + 1))
    /\ requests' = [requests EXCEPT ![r] =
                       IF @.pc = "insert" THEN [@ EXCEPT !.pc = "done", !.status = 200]
                       ELSE @]
    /\ UNCHANGED <<GEMINI_API_KEY, folders, templates, gen, synth,
                   upload_responses, template_responses>>

\* result = await db.question_papers.insert_one(paper_data); return paper_data
insert_paper(r) ==
    /\ requests[r].pc = "insert"
    /\ question_papers' = Append(question_papers, PaperData(r, Len(question_papers) + 1))
    /\ requests' = [requests EXCEPT ![r] = [@ EXCEPT !.pc = "done", !.status = 200]]
    /\ UNCHANGED <<GEMINI_API_KEY, folders, templates, gen, synth,
                   upload_responses, template_responses>>

\* ------------------------------------------------------------ specification
Next ==
    \/ create_folder
    \/ \E folder_id \in 0..MaxFolders, filename \in Filenames, decoded \in DecodedTexts,
          unit_name \in UnitNames \cup {None} :
          upload_file(folder_id, filename, decoded, unit_name)
    \/ \E template \in TemplateBodies : create_template(template)
    \/ create_template(TestTemplateData)
    \/ \E r \in 1..MaxRequests, folder_id \in 0..MaxFolders, template_id \in 0..MaxTemplates,
          selected_units \in SelectedUnitLists :
          generate_question_paper(r, folder_id, template_id, selected_units)
    \/ \E r \in 1..MaxRequests : find_folder(r)
    \/ \E r \in 1..MaxRequests : find_template(r)
    \/ \E r \in 1..MaxRequests : resume_generator(r)
    \/ \E r \in 1..MaxRequests : insert_paper(r)

Spec == Init /\ [][Next]_vars

\* ------------------------------------ generate-paper requests side by side
\* The server with MaxConcurrent generate-paper requests in flight, on a store
\* that gets one folder, uploads of one PDF for "Unit 1" and one template
\* asking for one question of that unit.
InitConc ==
    /\ GEMINI_API_KEY \in BOOLEAN
    /\ folders = <<>>
    /\ templates = <<>>
    /\ question_papers = <<>>
    /\ requests = [r \in 1..MaxConcurrent |-> RequestIdle]
    /\ gen = GenIdle
    /\ synth = SynthIdle
    /\ upload_responses = <<>>
    /\ template_responses = <<>>

ConcTemplate == TemplateCreate(<<SectionA(<<UnitQuestionSpec("Unit 1", 1)>>)>>)

upload_unit_pdf == upload_file(1, "Unit.PDF", <<"Data", " ", "notes", NL>>, "Unit 1")

NextConc ==
    \/ create_folder
    \/ upload_unit_pdf
    \/ create_template(ConcTemplate)
    \/ \E r \in 1..MaxConcurrent, folder_id \in 0..1 :
          generate_question_paper(r, folder_id, 1, <<"Unit 1">>)
    \/ \E r \in 1..MaxConcurrent : find_folder(r)
    \/ \E r \in 1..MaxConcurrent : find_template(r)
    \/ \E r \in 1..MaxConcurrent : resume_generator(r)
    \/ \E r \in 1..MaxConcurrent : insert_paper(r)

SpecConc == InitConc /\ [][NextConc]_vars

\* --------------------- generate_questions_with_gemini called on its own
GenContents ==
    {<<>>, <<NL, NL>>, <<"notes", NL, NL>>, <<"Data", " ", "notes", NL, NL, NL>>}

generate_questions_with_gemini(content, num_questions) ==
    /\ gen.pc = "idle"
    /\ \E reply \in GeminiReplies :
          gen' = gemini_call(content, num_questions, GEMINI_API_KEY, reply)
    /\ UNCHANGED <<GEMINI_API_KEY, folders, templates, question_papers, requests, synth,
                   upload_responses, template_responses>>

end_of_pause ==
    /\ gen.pc = "sleeping"
    /\ gen' = gemini_resume(gen)
    /\ UNCHANGED <<GEMINI_API_KEY, folders, templates, question_papers, requests, synth,
                   upload_responses, template_responses>>

NextGen ==
    \/ \E content \in GenContents, num_questions \in -1..MaxCount :
          generate_questions_with_gemini(content, num_questions)
    \/ end_of_pause

SpecGen == Init /\ [][NextGen]_vars

\* ------------------------- generate_fallback_questions called on its own
SynthContents == SeqsUpTo({"Data", "Algorithm", "notes", " ", NL}, MaxContentLen)

call_generate_fallback_questions(content, num_questions) ==
    /\ synth.pc = "idle"
    /\ synth' = [pc |-> "returned", content |-> content, num_questions |-> num_questions,
                 result |-> generate_fallback_questions(content, num_questions)]
    /\ UNCHANGED <<GEMINI_API_KEY, folders, templates, question_papers, requests, gen,
                   upload_responses, template_responses>>

NextSynth ==
    \E content \in SynthContents, num_questions \in (0 - MaxOver)..(FallbackCap + MaxOver) :
        call_generate_fallback_questions(content, num_questions)

SpecSynth == Init /\ [][NextSynth]_vars


\* ================================================================== claims
GenFinished == gen.pc \in {"returned", "raised"}

\* The replies of the provider that give the generator nothing to return.
FailureClasses ==
    {"transport_error", "missing", "empty_text", "no_span", "unparsable",
     "empty_array", "not_a_list"}

\* C1: the generator never raises to its caller: for every num_questions >= 1
\* and every LLM outcome a finished call has returned a list, and on every
\* failure outcome that list is the Fallback Synthesizer's.
C1_NeverRaises ==
    (GenFinished /\ gen.num_questions >= 1) =>
        /\ gen.pc = "returned"
        /\ (gen.class \in FailureClasses =>
                gen.result = generate_fallback_questions(gen.content, gen.num_questions))

\* C2: with a credential configured, a response text without a "[" ... "]"
\* span, with a span that does not parse, or with a span that parses to an
\* empty array makes the generator return exactly the synthesizer's output
\* for (content, num_questions).
C2_FallbackOnUnusableText ==
    (GenFinished /\ gen.credential /\ gen.num_questions >= 1
        /\ gen.class \in {"no_span", "unparsable", "empty_array"}) =>
        /\ gen.pc = "returned"
        /\ gen.result = generate_fallback_questions(gen.content, gen.num_questions)

\* C9: on every path with num_questions # 0 (LLM success, fallback after an
\* error or an unusable response, fallback for want of a credential) the
\* generator has paused for the rate-limit interval before it returns.
C9_PauseBeforeReturn ==
    (gen.pc = "returned" /\ gen.num_questions >= 1) => gen.paused

\* ------------------------------------------------ generate-paper requests
Done(r) == requests[r].pc = "done"

ReadBoth(r) == Found(requests[r].folder) /\ Found(requests[r].template)

\* The papers in the store that request r has inserted.
PapersBy(r) == {k \in 1..Len(question_papers) : question_papers[k].request = r}

\* The loop over the template's sections has run to its end.
SectionsDone(r) == requests[r].si > Len(requests[r].template.sections)

\* The files of the folder, as request r read it, whose unit is selected.
SelectedFiles(r) ==
    {i \in 1..Len(requests[r].folder.files) :
        requests[r].folder.files[i].unit_name \in Range(requests[r].selected_units)}

\* Unit u is selected and the folder has text for it that is not whitespace.
UnitHasText(r, u) ==
    \E i \in SelectedFiles(r) :
        /\ requests[r].folder.files[i].unit_name = u
        /\ \E j \in 1..Len(requests[r].folder.files[i].extracted_text) :
              requests[r].folder.files[i].extracted_text[j] \notin Whitespace

SomeUnitHasText(r) == \E u \in Range(requests[r].selected_units) : UnitHasText(r, u)

\* The (section index, spec index) pairs of the template request r read.
SpecPositions(r) ==
    UNION {{<<s, u>> : u \in 1..Len(requests[r].template.sections[s].question_specs)} :
              s \in 1..Len(requests[r].template.sections)}

SpecAt(r, p) == requests[r].template.sections[p[1]].question_specs[p[2]]

\* C3: generate-paper with a folder id or a template id that is not in the
\* store reports not-found (404), and persists no paper.
C3_NotFoundReported ==
    \A r \in 1..MaxRequests :
        (Done(r) /\ ~ReadBoth(r)) => (requests[r].status = 404 /\ PapersBy(r) = {})

\* C4: when no selected unit of the folder has non-whitespace text,
\* generate-paper reports an input-validation failure (400), has not invoked
\* the generator and persists nothing.
C4_NoContentIsValidationError ==
    \A r \in 1..MaxRequests :
        (Done(r) /\ ReadBoth(r) /\ ~SomeUnitHasText(r)) =>
            /\ requests[r].status = 400
            /\ requests[r].calls = <<>>
            /\ PapersBy(r) = {}

\* C5: when all sections are processed and none holds a question,
\* generate-paper reports the input-validation failure (400) "no questions
\* generated" and persists nothing.
C5_NoQuestionsIsValidationError ==
    \A r \in 1..MaxRequests :
        (Done(r) /\ ReadBoth(r) /\ SomeUnitHasText(r) /\ SectionsDone(r)
            /\ NoQuestionsGenerated(requests[r].paper_sections_with_questions)) =>
            /\ requests[r].status = 400
            /\ requests[r].cause = NoQuestions.detail
            /\ PapersBy(r) = {}

\* Every unit spec of the template names a unit without selected content.
AllSpecsAbsent(r) ==
    /\ SpecPositions(r) # {}
    /\ \A p \in SpecPositions(r) :
          ~ \E i \in SelectedFiles(r) :
                requests[r].folder.files[i].unit_name = SpecAt(r, p).unit_name

NoUploadedFiles(r, u) ==
    \A i \in 1..Len(requests[r].folder.files) : requests[r].folder.files[i].unit_name # u

QuestionsOf(paper) ==
    Concat([k \in 1..Len(paper.paper_sections) |-> paper.paper_sections[k].questions])

\* C7: a unit spec naming a unit with no uploaded files is skipped silently:
\* if some unit spec with a count >= 1 names a unit with content, the request
\* succeeds, its paper is persisted, no question is tagged with the missing
\* unit, and every spec with a count >= 1 for a unit with content has its
\* questions in its section.
C7_MissingUnitSkipped ==
    \A r \in 1..MaxRequests :
        (/\ Done(r) /\ ReadBoth(r)
         /\ \E p \in SpecPositions(r) : NoUploadedFiles(r, SpecAt(r, p).unit_name)
         /\ \E p \in SpecPositions(r) :
               SpecAt(r, p).num_questions >= 1 /\ UnitHasText(r, SpecAt(r, p).unit_name)) =>
            /\ requests[r].status = 200
            /\ \E k \in PapersBy(r) :
                  /\ \A i \in 1..Len(QuestionsOf(question_papers[k])) :
                        ~NoUploadedFiles(r, QuestionsOf(question_papers[k])[i].unit_name_source)
                  /\ \A p \in SpecPositions(r) :
                        (SpecAt(r, p).num_questions >= 1
                            /\ UnitHasText(r, SpecAt(r, p).unit_name)) =>
                        \E i \in 1..Len(question_papers[k].paper_sections[p[1]].questions) :
                            question_papers[k].paper_sections[p[1]].questions[i]
                                .unit_name_source = SpecAt(r, p).unit_name

\* C8: no partial commit. A step that changes the paper store appends exactly
\* one paper, for a request that has processed every section of its template,
\* has inserted no paper before and ends with a success by that step; and a
\* request that ends with a failure has no paper in the store.
C8_NoPartialCommit ==
    [][/\ question_papers' # question_papers =>
            \E r \in 1..MaxRequests :
                /\ Len(question_papers') = Len(question_papers) + 1
                /\ SubSeq(question_papers', 1, Len(question_papers)) = question_papers
                /\ question_papers'[Len(question_papers')].request = r
                /\ PapersBy(r) = {}
                /\ requests[r].pc = "insert" /\ SectionsDone(r)
                /\ Len(question_papers'[Len(question_papers')].paper_sections)
                       = Len(requests[r].template.sections)
                /\ requests'[r].pc = "done" /\ requests'[r].status = 200
       /\ \A r \in 1..MaxRequests :
            (requests'[r].pc = "done" /\ requests'[r].status # 200) =>
                ~ \E k \in 1..Len(question_papers') : question_papers'[k].request = r
      ]_vars

\* A request that failed in its second section, after its first section was
\* recorded with questions, and the paper store is empty.
C8_Witness ==
    \E r \in 1..MaxRequests :
        /\ Done(r) /\ requests[r].status # 200
        /\ requests[r].si = 2
        /\ Len(requests[r].paper_sections_with_questions) = 1
        /\ requests[r].paper_sections_with_questions[1].questions # <<>>
        /\ question_papers = <<>>

\* The template has one section with one unit spec that asks for n >= 1.
SingleSpec(r) ==
    /\ Len(requests[r].template.sections) = 1
    /\ Len(requests[r].template.sections[1].question_specs) = 1
    /\ requests[r].template.sections[1].question_specs[1].num_questions >= 1

\* C10 as stated: a successful generate-paper for a template with one section
\* and the single unit spec (u, n), n >= 1, yields one PaperSection with
\* exactly n questions, each tagged with u and the section's name.
C10_ExactCount ==
    \A r \in 1..MaxRequests :
        (Done(r) /\ requests[r].status = 200 /\ SingleSpec(r)) =>
            \E k \in PapersBy(r) :
                LET ps == question_papers[k].paper_sections
                    spec == SpecAt(r, <<1, 1>>)
                IN  /\ Len(ps) = 1
                    /\ Len(ps[1].questions) = spec.num_questions
                    /\ \A i \in 1..Len(ps[1].questions) :
                          /\ ps[1].questions[i].unit_name_source = spec.unit_name
                          /\ ps[1].questions[i].section_name_source = ps[1].section_name

\* C10 amended: such a request yields one PaperSection whose questions are
\* each tagged with u and the section's name; there are exactly min(n, 10) of
\* them when they come from the Fallback Synthesizer, and as many as the
\* LLM's array holds (at least one) when they come from the LLM.
C10_TaggedQuestions ==
    \A r \in 1..MaxRequests :
        (Done(r) /\ requests[r].status = 200 /\ SingleSpec(r)) =>
            \E k \in PapersBy(r) :
                LET ps == question_papers[k].paper_sections
                    spec == SpecAt(r, <<1, 1>>)
                IN  /\ Len(ps) = 1
                    /\ ps[1].section_name = requests[r].template.sections[1].section_name
                    /\ Len(ps[1].questions) >= 1
                    /\ requests[r].gen.fallback_calls = 1 =>
                          Len(ps[1].questions) = Min(spec.num_questions, FallbackCap)
                    /\ requests[r].gen.fallback_calls = 0 =>
                          /\ requests[r].gen.class = "nonempty_array"
                          /\ Len(ps[1].questions) = Len(requests[r].gen.questions_list)
                    /\ \A i \in 1..Len(ps[1].questions) :
                          /\ ps[1].questions[i].unit_name_source = spec.unit_name
                          /\ ps[1].questions[i].section_name_source = ps[1].section_name

\* The end-to-end scenario: "Unit 1" selected, one MCQ section of 2 marks
\* with the unit spec ("Unit 1", 3), three questions in the paper.
C10_Witness ==
    \E r \in 1..MaxRequests :
        /\ Done(r) /\ requests[r].status = 200
        /\ requests[r].selected_units = <<"Unit 1">>
        /\ requests[r].template.sections = <<SectionA(<<UnitQuestionSpec("Unit 1", 3)>>)>>
        /\ \E k \in PapersBy(r) : Len(question_papers[k].paper_sections[1].questions) = 3

\* ------------------------------------------ the generator without the LLM
\* C11: without a credential the generator never invokes the LLM: for every
\* content and every num_questions a finished call has returned, no provider
\* call was made, and the list returned is exactly
\* generate_fallback_questions(content, num_questions).
C11_NoCredentialIsFallback ==
    (gen.pc # "idle" /\ ~gen.credential) =>
        /\ gen.pc = "returned"
        /\ gen.llm_calls = 0
        /\ gen.class = None
        /\ gen.result = generate_fallback_questions(gen.content, gen.num_questions)

\* A call without a credential for three questions on content that names a
\* common term has returned the three synthesized questions.
C11_Witness ==
    /\ gen.pc = "returned" /\ ~gen.credential
    /\ gen.num_questions = 3
    /\ found_terms(gen.content) = <<"data">>
    /\ gen.llm_calls = 0 /\ gen.fallback_calls = 1
    /\ Len(gen.result) = 3

\* C12: for num_questions = 0 the generator returns the empty list at once:
\* no provider call, no call of the Fallback Synthesizer, no pause, with or
\* without a credential.
C12_ZeroReturnsEmpty ==
    (gen.pc # "idle" /\ gen.num_questions = 0) =>
        /\ gen.pc = "returned"
        /\ gen.result = <<>>
        /\ gen.llm_calls = 0
        /\ gen.fallback_calls = 0
        /\ ~gen.paused

\* A call for zero questions with a credential set has returned.
C12_Witness ==
    /\ gen.pc = "returned" /\ gen.num_questions = 0 /\ gen.credential
    /\ gen.content # <<>>
    /\ gen.result = <<>> /\ gen.llm_calls = 0

\* ------------------------------------------------ the Fallback Synthesizer
\* C13: the Fallback Synthesizer never fails: for every content and every
\* integer N the call returns a list, of exactly min(N, 10) questions when
\* N >= 1 and empty when N <= 0.
C13_FallbackCount ==
    synth.pc = "returned" =>
        /\ synth.num_questions >= 1 =>
              Len(synth.result) = Min(synth.num_questions, 10)
        /\ synth.num_questions <= 0 => synth.result = <<>>
        /\ \A k \in 1..Len(synth.result) : synth.result[k].kind = "obj"

\* More questions asked for than the limit, on content without a common
\* term: ten questions come back.
C13_Witness ==
    /\ synth.pc = "returned"
    /\ synth.num_questions > FallbackCap
    /\ found_terms(synth.content) = <<>>
    /\ Len(synth.result) = FallbackCap

\* C14: in the synthesizer's output the question at position i (0-based) has
\* its archetype, difficulty and marks fixed by i mod 3: 0 gives MCQ / Easy /
\* 2, 1 gives Short / Medium / 5, 2 gives Long / Hard / 10, whatever the
\* content and the count.
C14_PositionMod3 ==
    synth.pc = "returned" =>
        \A k \in 1..Len(synth.result) :
            LET q == synth.result[k]
                i == k - 1
            IN  /\ i % 3 = 0 => q.type = "MCQ" /\ q.difficulty = "Easy" /\ q.marks = 2
                /\ i % 3 = 1 => q.type = "Short" /\ q.difficulty = "Medium" /\ q.marks = 5
                /\ i % 3 = 2 => q.type = "Long" /\ q.difficulty = "Hard" /\ q.marks = 10

\* A list long enough for every archetype to come round a second time, on
\* content that names two common terms.
C14_Witness ==
    /\ synth.pc = "returned"
    /\ Len(found_terms(synth.content)) = 2
    /\ Len(synth.result) >= 6
    /\ synth.result[4].type = "MCQ"
    /\ synth.result[5].type = "Short"
    /\ synth.result[6].type = "Long"

\* ------------------------------------------- the order of generator calls
\* Position p comes before position q in the template (sections first, then
\* the unit specs of a section).
Before(p, q) == p[1] < q[1] \/ (p[1] = q[1] /\ p[2] < q[2])

CallPosition(call) == <<call.si, call.ui>>

\* The unit spec at position p leads to a call of the generator.
Eligible(r, p) ==
    /\ SpecAt(r, p).num_questions # 0
    /\ GetContent(requests[r].available_unit_contents, SpecAt(r, p).unit_name) # <<>>

\* The index of the first unit spec of the list that names the unit.
SpecIndex(question_specs, unit_name) ==
    CHOOSE k \in 1..Len(question_specs) :
        /\ question_specs[k].unit_name = unit_name
        /\ \A j \in 1..(k - 1) : question_specs[j].unit_name # unit_name

\* The questions are grouped by unit, in the order of the unit specs.
InSpecOrder(questions, question_specs) ==
    \A i, j \in 1..Len(questions) :
        i < j => SpecIndex(question_specs, questions[i].unit_name_source)
                    <= SpecIndex(question_specs, questions[j].unit_name_source)

C16_PauseDoesNotBlock ==
    \A a \in 1..MaxConcurrent :
        requests[a].pc = "sleeping" =>
            /\ \A b \in (1..MaxConcurrent) \ {a} :
                  /\ requests[b].pc = "idle" =>
                        ENABLED generate_question_paper(b, 1, 1, <<"Unit 1">>)
                  /\ requests[b].pc = "find_folder" => ENABLED find_folder(b)
                  /\ requests[b].pc = "find_template" => ENABLED find_template(b)
                  /\ requests[b].pc = "sleeping" => ENABLED resume_generator(b)
                  /\ requests[b].pc = "insert" => ENABLED insert_paper(b)
            /\ Len(upload_responses) < MaxFiles => ENABLED upload_unit_pdf

\* Request b arrived while request a was in the pause, has been answered (its
\* folder id is unknown) and a is still in that pause.
C16_Witness ==
    \E a, b \in 1..MaxConcurrent :
        /\ a # b
        /\ requests[a].pc = "sleeping"
        /\ Len(requests[a].calls) = 1
        /\ a \in requests[b].peers_paused
        /\ Done(b)
        /\ requests[b].raised = 404

\* ------------------------------------------------------ files and folders
\* The folders whose file list holds a file with the id.
FoldersHolding(file_id) ==
    {i \in 1..Len(folders) :
        \E j \in 1..Len(folders[i].files) : folders[i].files[j].id = file_id}

\* C17: every File is owned by exactly one Folder: each file id that
\* upload-file has answered with success is in the file list of exactly one
\* folder, the folder the request named, also when no folder has that id.
C17_FileInExactlyOneFolder ==
    \A k \in 1..Len(upload_responses) :
        upload_responses[k].status = 200 =>
            /\ Cardinality(FoldersHolding(upload_responses[k].file_id)) = 1
            /\ \A i \in FoldersHolding(upload_responses[k].file_id) :
                  folders[i].id = upload_responses[k].folder_id

\* ---------------------------------------------------------- create-template
\* C18: create-template succeeds (status 200 with an id, the template
\* stored) for a definition that gives name, paper_code, duration,
\* total_marks, user_id and sections described only by type, questions and
\* marks.
C18_TestTemplateAccepted ==
    \A k \in 1..Len(template_responses) :
        (/\ template_responses[k].fields =
               {"name", "paper_code", "duration", "total_marks", "sections", "user_id"}
         /\ template_responses[k].section_fields = {"type", "questions", "marks"}) =>
            /\ template_responses[k].status = 200
            /\ \E i \in 1..Len(templates) : templates[i].id = template_responses[k].id

\* ------------------------------------------------ what counts as content
Unsupported(file_data) == LowerExtension(file_data.filename) \notin {".pdf", ".docx", ".pptx"}

\* The files of unit u in the folder as request r read it.
FilesOfUnit(r, u) ==
    {i \in 1..Len(requests[r].folder.files) : requests[r].folder.files[i].unit_name = u}

\* The content of a unit that has n files, each of an unsupported format.
MarkerContent(n) == Concat([i \in 1..n |-> UnsupportedMarker \o <<NL, NL>>])

\* Request r has both documents and is past the meaningful-content check.
PastReads(r) == requests[r].pc \in {"sleeping", "insert", "done"} /\ ReadBoth(r)

\* C19: a file with an unsupported extension is uploaded with success and
\* the marker string is stored as its extracted text; a generate-paper
\* request over a folder whose only files for a selected unit are such files
\* passes the meaningful-content check, and for each unit spec of that unit
\* with a count >= 1 that the loops have come to, the generator has been
\* called with the marker string as the unit's content.
C19_MarkerIsContent ==
    /\ \A i \in 1..Len(folders) : \A j \in 1..Len(folders[i].files) :
          Unsupported(folders[i].files[j]) =>
              /\ folders[i].files[j].extracted_text = UnsupportedMarker
              /\ \E k \in 1..Len(upload_responses) :
                    /\ upload_responses[k].file_id = folders[i].files[j].id
                    /\ upload_responses[k].status = 200
    /\ \A r \in 1..MaxRequests : \A u \in Range(requests[r].selected_units) :
          (/\ PastReads(r)
           /\ FilesOfUnit(r, u) # {}
           /\ \A i \in FilesOfUnit(r, u) : Unsupported(requests[r].folder.files[i])) =>
              /\ requests[r].cause # NoContent.detail
              /\ \A p \in SpecPositions(r) :
                    (/\ SpecAt(r, p).unit_name = u
                     /\ SpecAt(r, p).num_questions >= 1
                     /\ \/ Before(p, <<requests[r].si, requests[r].ui>>)
                        \/ p = <<requests[r].si, requests[r].ui>>) =>
                        \E k \in 1..Len(requests[r].calls) :
                            /\ CallPosition(requests[r].calls[k]) = p
                            /\ requests[r].calls[k].content =
                                  MarkerContent(Cardinality(FilesOfUnit(r, u)))

\* The folder's only file is "unit.txt" for "Unit 1"; the request that
\* selects the unit has succeeded with questions made from the marker string.
C19_Witness ==
    \E r \in 1..MaxRequests :
        /\ Done(r) /\ requests[r].status = 200
        /\ Len(requests[r].folder.files) = 1
        /\ requests[r].folder.files[1].filename = "unit.txt"
        /\ requests[r].folder.files[1].unit_name = "Unit 1"
        /\ Len(requests[r].calls) = 1
        /\ requests[r].calls[1].content = UnsupportedMarker \o <<NL, NL>>
        /\ \E k \in PapersBy(r) : QuestionsOf(question_papers[k]) # <<>>

\* C20: the generator is called for a unit spec only if the unit's
\* concatenated text has a character that is not whitespace: a selected unit
\* whose files hold only whitespace leads to no call and to no question, also
\* when another unit lets the request pass the meaningful-content check.
C20_NoCallOnBlankUnit ==
    \A r \in 1..MaxRequests :
        /\ \A k \in 1..Len(requests[r].calls) :
              \E j \in 1..Len(requests[r].calls[k].content) :
                  requests[r].calls[k].content[j] \notin Whitespace
        /\ \A k \in 1..Len(requests[r].paper_sections_with_questions) :
              \A i \in 1..Len(requests[r].paper_sections_with_questions[k].questions) :
                  UnitHasText(
                      r, requests[r].paper_sections_with_questions[k].questions[i]
                             .unit_name_source)

\* ------------------------------------------- uniform sections of a paper
\* C21: in every persisted question paper each question of a PaperSection
\* has the type of the section's questions_type and the marks of the
\* section's marks_for_each_question_in_section, also when the questions
\* come from the Fallback Synthesizer.
C21_UniformTypeAndMarks ==
    \A k \in 1..Len(question_papers) :
        \A s \in 1..Len(question_papers[k].paper_sections) :
            LET section == question_papers[k].paper_sections[s]
            IN  \A i \in 1..Len(section.questions) :
                    /\ section.questions[i].type = section.questions_type
                    /\ section.questions[i].marks =
                          section.marks_for_each_question_in_section

====
